---- MODULE Spec2Model ----
(***************************************************************************)
(* NIDEM generation (src/NIDEM_generation.py): one run of main() per tile. *)
(* A run imports the tile's classification raster, fills its edge nodata,  *)
(* extracts contours at the interval boundaries, tags them with the tile's *)
(* heights and uncertainties, interpolates them onto the pixel grid,       *)
(* composites the mask and exports the rasters.                            *)
(*                                                                         *)
(* Numbers.  Lengths are whole numbers of 1/Sub pixel; heights and         *)
(* uncertainties are whole millimetres (the table file holds millimetres). *)
(* A float array cell is a record [nan, lo, hi]: NaN, or a finite value v  *)
(* with lo <= v <= hi (lo = hi when the model knows it exactly).           *)
(***************************************************************************)
EXTENDS Integers, Sequences, FiniteSets, TLC

VARIABLES
    pc,                      \* per run: the stage main() is about to execute
    err,                     \* per run: the exception that ended it, or "none"
    inputs,                  \* per run: the command line and the tile's files
    scratch,                 \* the file 'scratch/temp.tif', which all runs use
    netcdf_file,             \* per tile: the run whose NetCDF is on disk, or NoFile
    masking,                 \* per run: the masking rasters and confidence raster on disk
    all_times_obs,           \* per run: the observation times handed to predict_tide
    contour_offsets,         \* per run: the tile's 9 heights (mm)
    uncertainty_array,       \* per run: the tile's 9 standard deviations (mm)
    valid_intertidal_extent, \* per run: 1 where 0 < label < 9 in the raw raster
    item_array,              \* per run: the float raster (NaN for nodata), gap-filled later
    z_values,                \* per run: the levels contour_extract was called with (halves)
    contour_dict,            \* per run: sequence of [z, contours], levels in insertion order
    shapefile,               \* per run: the records written to the contour shapefile
    points,                  \* per run: the scattered point set (x, y, elev, uncert)
    interp_elev_array,       \* per run: interpolated elevation raster
    interp_uncert_array,     \* per run: interpolated uncertainty raster
    aux,                     \* per run: the arrays read from the masking inputs
    nidem_mask,              \* per run: composite mask
    nidem_uncertainty,       \* per run
    nidem_unfiltered,        \* per run
    nidem_filtered,          \* per run
    exported                 \* per run: the artifacts written so far, in order

vars == <<pc, err, inputs, scratch, netcdf_file, masking, all_times_obs,
          contour_offsets, uncertainty_array,
          valid_intertidal_extent, item_array, z_values, contour_dict, shapefile,
          points,
          interp_elev_array, interp_uncert_array, aux, nidem_mask, nidem_uncertainty,
          nidem_unfiltered, nidem_filtered, exported>>

----------------------------------------------------------------------------
\* The tile grid and number representation

\* Rows and columns of the tile (item_array.shape).
YRows == 3
XCols == 3

Rows == 0 .. (YRows - 1)
Cols == 0 .. (XCols - 1)
Pixels == Rows \X Cols

\* Sub-pixel resolution: every crossing fraction (level - a) / (b - a) of two
\* labels 0..9 at a half-integer level is a whole number of 1/Sub.
Sub == 5040

\* The raster's geotransform (upleft_x, x_size, x_rotation, upleft_y, y_rotation, y_size):
\* a north-up tile with square pixels of Sub length units.
geotrans == <<0, Sub, 0, 0, 0, 0 - Sub>>
upleft_x == geotrans[1]
x_size == geotrans[2]
upleft_y == geotrans[4]
y_size == geotrans[6]
bottomright_x == upleft_x + (x_size * XCols)
bottomright_y == upleft_y + (y_size * YRows)

\* Nodata code of the classification raster, and of every output.
ItemNoData == -6666
NoData == -9999

\* Float cells.
NaN == [nan |-> TRUE, lo |-> 0, hi |-> 0]
Num(v) == [nan |-> FALSE, lo |-> v, hi |-> v]
Between(a, b) == [nan |-> FALSE, lo |-> a, hi |-> b]
\* The sentinel -9999 as a float cell, in the millimetre scale of the height rasters.
Sentinel == Num(NoData * 1000)
IsFinite(c) == ~c.nan

Abs(x) == IF x < 0 THEN 0 - x ELSE x
SetMin(S) == CHOOSE x \in S : \A y \in S : x <= y
SetMax(S) == CHOOSE x \in S : \A y \in S : x >= y

----------------------------------------------------------------------------
\* Import of the classification raster (main, lines 152-173)

\* np.where((item_array > 0) & (item_array < 9), 1, 0) on the raw integer raster
\* A faulty extent that lets the bounding labels 0 and 9 through
ValidExtentInclusive(raw) == [p \in Pixels |-> IF raw[p] >= 0 /\ raw[p] <= 9 THEN 1 ELSE 0]

ValidExtent(raw) == [p \in Pixels |-> IF raw[p] > 0 /\ raw[p] < 9 THEN 1 ELSE 0]

\* astype('float32'), then -6666 becomes NaN
ToFloatNaN(raw) == [p \in Pixels |-> IF raw[p] = ItemNoData THEN NaN ELSE Num(raw[p])]

----------------------------------------------------------------------------
\* Gap filling (main, lines 177-187)

\* The 8-connected square, which the call of line 177 does not pass
Adjacent8(p, q) == p # q /\ Abs(p[1] - q[1]) <= 1 /\ Abs(p[2] - q[2]) <= 1

\* scipy's default structuring element for binary_dilation: the 4-connected cross
Adjacent4(p, q) == Abs(p[1] - q[1]) + Abs(p[2] - q[2]) = 1

Dilate(S) == S \cup {p \in Pixels : \E q \in S : Adjacent4(p, q)}

RECURSIVE binary_dilation(_, _)
binary_dilation(S, iterations) ==
    IF iterations = 0 THEN S ELSE binary_dilation(Dilate(S), iterations - 1)

\* iterations=2 in the call of line 177
DilationIterations == 2

Dist2(p, q) == (p[1] - q[1]) * (p[1] - q[1]) + (p[2] - q[2]) * (p[2] - q[2])

\* A faulty transform that returns a farthest pixel with data
FarthestData(a, p) ==
    LET data == {q \in Pixels : ~a[q].nan}
    IN  {q \in data : \A q2 \in data : Dist2(p, q) >= Dist2(p, q2)}

\* A faulty transform that measures the distance along rows and columns
NearestCityBlock(a, p) ==
    LET data == {q \in Pixels : ~a[q].nan}
        d(q) == Abs(p[1] - q[1]) + Abs(p[2] - q[2])
    IN  {q \in data : \A q2 \in data : d(q) <= d(q2)}

\* distance_transform_edt(isnan, return_indices=True): for every pixel the indices of
\* a nearest pixel with data (a data pixel is its own nearest pixel)
NearestData(a, p) ==
    LET data == {q \in Pixels : ~a[q].nan}
    IN  {q \in data : \A q2 \in data : Dist2(p, q) <= Dist2(p, q2)}

\* The rasters lines 177-187 can produce from a: equidistant data pixels are told
\* apart by the distance transform's own scan order, so each is a possible source.
GapFilled(a) ==
    LET dilated_mask == binary_dilation({q \in Pixels : ~a[q].nan}, DilationIterations)
        vals(p) == {a[q] : q \in NearestData(a, p)}
        ambiguous == {p \in dilated_mask : Cardinality(vals(p)) > 1}
        allvals == UNION {vals(p) : p \in ambiguous}
        picks == {g \in [ambiguous -> allvals] : \A p \in ambiguous : g[p] \in vals(p)}
    IN  {[p \in Pixels |->
            IF p \notin dilated_mask THEN NaN
            ELSE IF p \in ambiguous THEN g[p]
            ELSE CHOOSE v \in vals(p) : TRUE] : g \in picks}

----------------------------------------------------------------------------
\* Contour extraction (contour_extract, lines 684-760; skimage find_contours)

\* z_values = np.arange(0.5, 9.5, 1.0): level k of Levels stands for k + 0.5
NumLevels == 9
Levels == 0 .. (NumLevels - 1)

\* A faulty range that holds stop as well
arange_inclusive(start, stop, step) ==
    [i \in 1 .. ((stop - start) \div step + 1) |-> start + (i - 1) * step]

\* np.arange(start, stop, step), all three counted in halves: stop is left out
arange(start, stop, step) ==
    [i \in 1 .. ((stop - start + step - 1) \div step) |-> start + (i - 1) * step]

\* z_values=np.arange(0.5, 9.5, 1.0), line 222, in halves
main_z_values == arange(2 * 0 + 1, 2 * NumLevels + 1, 2)

\* value > level, as marching squares compares a corner (NaN > level is false)
High(c, k) == ~c.nan /\ 2 * c.lo > 2 * k + 1

\* _get_fraction(from_value, to_value, level) in units of 1/Sub; NaN when a value is NaN
Fraction(from, to, k) ==
    IF from.nan \/ to.nan THEN NaN
    ELSE IF to.lo = from.lo THEN Num(0)
    ELSE LET n == 2 * k + 1 - 2 * from.lo
             d == 2 * (to.lo - from.lo)
         IN  Num(IF d < 0 THEN ((0 - n) * Sub) \div (0 - d) ELSE (n * Sub) \div d)

\* A point of index space (row, col), scaled by Sub; NaN when a coordinate is NaN
NaNPoint == [nan |-> TRUE, r |-> 0, c |-> 0]
IndexPoint(r, fr, c, fc) ==
    IF fr.nan \/ fc.nan THEN NaNPoint
    ELSE [nan |-> FALSE, r |-> r * Sub + fr.lo, c |-> c * Sub + fc.lo]

\* The segments marching squares emits for the square whose upper left corner is (r0, c0)
\* (fully_connected = 'low': vertex_connect_high is false)
SquareSegments(a, k, r0, c0) ==
    LET r1 == r0 + 1
        c1 == c0 + 1
        ul == a[<<r0, c0>>]
        ur == a[<<r0, c1>>]
        ll == a[<<r1, c0>>]
        lr == a[<<r1, c1>>]
        square_case == (IF High(ul, k) THEN 1 ELSE 0) + (IF High(ur, k) THEN 2 ELSE 0)
                     + (IF High(ll, k) THEN 4 ELSE 0) + (IF High(lr, k) THEN 8 ELSE 0)
        top == IndexPoint(r0, Num(0), c0, Fraction(ul, ur, k))
        bottom == IndexPoint(r1, Num(0), c0, Fraction(ll, lr, k))
        left == IndexPoint(r0, Fraction(ul, ll, k), c0, Num(0))
        right == IndexPoint(r0, Fraction(ur, lr, k), c1, Num(0))
    IN  CASE square_case = 1 -> {<<top, left>>}
          [] square_case = 2 -> {<<right, top>>}
          [] square_case = 3 -> {<<right, left>>}
          [] square_case = 4 -> {<<left, bottom>>}
          [] square_case = 5 -> {<<top, bottom>>}
          [] square_case = 6 -> {<<right, top>>, <<left, bottom>>}
          [] square_case = 7 -> {<<right, bottom>>}
          [] square_case = 8 -> {<<bottom, right>>}
          [] square_case = 9 -> {<<top, left>>, <<bottom, right>>}
          [] square_case = 10 -> {<<bottom, top>>}
          [] square_case = 11 -> {<<bottom, left>>}
          [] square_case = 12 -> {<<left, right>>}
          [] square_case = 13 -> {<<top, right>>}
          [] square_case = 14 -> {<<left, top>>}
          [] OTHER -> {}

Segments(a, k) ==
    UNION {SquareSegments(a, k, r0, c0) : r0 \in 0 .. (YRows - 2), c0 \in 0 .. (XCols - 2)}

RECURSIVE Chain(_, _)
\* The points joined to S through segments that meet at equal (hence finite) end points
Chain(S, segs) ==
    LET T == S \cup {s[2] : s \in {t \in segs : t[1] \in S /\ ~t[1].nan}}
               \cup {s[1] : s \in {t \in segs : t[2] \in S /\ ~t[2].nan}}
    IN  IF T = S THEN S ELSE Chain(T, segs)

\* find_contours(ds_array, z_value): the polylines, each the set of its vertices.
\* A NaN end point equals no other point, so it joins nothing and ends its polyline.
find_contours(a, k) ==
    LET segs == Segments(a, k)
        ends == {s[1] : s \in segs} \cup {s[2] : s \in segs}
    IN  {Chain({v}, segs) : v \in {e \in ends : ~e.nan}}
        \cup {{NaNPoint} : s \in {t \in segs : t[1].nan /\ t[2].nan}}

\* ds_affine * (col, row) + (0.5 * ps, -0.5 * ps), ps = ds_affine[0]: world (x, y)
NaNXY == [nan |-> TRUE, x |-> 0, y |-> 0]
ToWorld(v) ==
    IF v.nan THEN NaNXY
    ELSE [nan |-> FALSE,
          x |-> upleft_x + (v.c * x_size) \div Sub + x_size \div 2,
          y |-> upleft_y + (v.r * y_size) \div Sub - x_size \div 2]

\* min_vertices=2, the default of contour_extract
min_vertices == 2

\* A faulty clean-up that keeps the vertices with NaN coordinates
contours_keepnan(a, k) ==
    LET contours_geo == {{ToWorld(v) : v \in line} : line \in find_contours(a, k)}
    IN  {line \in contours_geo : Cardinality(line) >= min_vertices}

\* The polylines contour_extract keeps for one level: converted, NaN vertices dropped,
\* polylines with fewer than min_vertices vertices dropped
contours_withdata(a, k) ==
    LET contours_geo == {{ToWorld(v) : v \in line} : line \in find_contours(a, k)}
        contours_nona == {{w \in line : ~w.nan} : line \in contours_geo}
    IN  {line \in contours_nona : Cardinality(line) >= min_vertices}

\* A faulty loop that enters every level into the mapping, with or without data
ContoursEveryLevel(a, k) ==
    [i \in 1 .. (NumLevels - k) |->
        [z |-> k + i - 1, contours |-> contours_withdata(a, k + i - 1)]]

RECURSIVE ContoursFrom(_, _)
\* The loop of lines 698-718 from level k on: a level enters the mapping only with data
ContoursFrom(a, k) ==
    IF k >= NumLevels THEN <<>>
    ELSE LET kept == contours_withdata(a, k)
         IN  (IF kept # {} THEN <<[z |-> k, contours |-> kept]>> ELSE <<>>)
             \o ContoursFrom(a, k + 1)

\* The records of the shapefile (lines 747-757): entry number i of the mapping gets
\* field_vals[i] of every attribute list
ShapefileRecords(cd, elev_m, uncert_m) ==
    [i \in 1 .. Len(cd) |-> [z |-> cd[i].z, elev_m |-> elev_m[i], uncert_m |-> uncert_m[i]]]

----------------------------------------------------------------------------
\* Tagged points and interpolation (main, lines 241-269; scipy griddata)

\* A height of elevation.txt that is no number (float('nan'), line 200), written as a
\* value that no height in millimetres takes
NaNHeight == 999999

\* uncertainty_dict[h] finds an entry: h is a key, and it is a number (NaN is equal to
\* nothing, itself included, so the lookup of a NaN height raises KeyError)
HasEntry(offsets, h) ==
    /\ h # NaNHeight
    /\ \E j \in 1 .. Len(offsets) : offsets[j] = h

\* dict(zip(contour_offsets, uncertainty_array)): a height that occurs twice keeps
\* the uncertainty zipped with its last occurrence
uncertainty_dict(offsets, uarr) ==
    [h \in {offsets[j] : j \in 1 .. Len(offsets)} |->
        uarr[SetMax({j \in 1 .. Len(offsets) : offsets[j] = h})]]

\* np.round(u, 2) of a value in metres: whole centimetres, halves to the even
\* neighbour; a value that lies between two whole millimetres (lo < hi) is no half
Round2(u) ==
    IF u.nan THEN NaN
    ELSE LET q == u.lo \div 10
             m == u.lo % 10
         IN  Num(IF m < 5 THEN 10 * q
                 ELSE IF m > 5 \/ u.lo < u.hi THEN 10 * (q + 1)
                 ELSE IF q % 2 = 0 THEN 10 * q ELSE 10 * (q + 1))

\* elev_contours / all_contours (lines 244-250): entry number i of the mapping, counted
\* from 0 as enumerate does, is tagged with contour_offsets[i]
all_contours(cd, offsets) ==
    UNION {{[x |-> w.x, y |-> w.y, elev |-> offsets[i]] : w \in UNION cd[i].contours}
           : i \in 1 .. Len(cd)}

\* A faulty lookup that joins on the heights rounded to 2 decimals
TaggedPointsRounded(cd, offsets, uarr) ==
    LET rounded == [j \in 1 .. Len(offsets) |-> Round2(Num(offsets[j])).lo]
        ud == uncertainty_dict(rounded, uarr)
    IN  {[x |-> pt.x, y |-> pt.y, elev |-> Num(pt.elev),
          uncert |-> Round2(ud[Round2(Num(pt.elev)).lo])]
         : pt \in all_contours(cd, offsets)}

\* values_uncert (line 253): the uncertainty looked up by each point's height
TaggedPoints(cd, offsets, uarr) ==
    LET ud == uncertainty_dict(offsets, uarr)
    IN  {[x |-> pt.x, y |-> pt.y, elev |-> Num(pt.elev), uncert |-> Round2(ud[pt.elev])]
         : pt \in all_contours(cd, offsets)}

\* np.mgrid[upleft:bottomright:1j * n]: n samples from upleft to bottomright inclusive
GridCoord(upleft, bottomright, n, i) ==
    IF n = 1 THEN upleft ELSE upleft + (i * (bottomright - upleft)) \div (n - 1)

GridPoint(p) == [x |-> GridCoord(upleft_x, bottomright_x, XCols, p[2]),
                 y |-> GridCoord(upleft_y, bottomright_y, YRows, p[1])]

Cross(o, a, b) == (a.x - o.x) * (b.y - o.y) - (a.y - o.y) * (b.x - o.x)

Less(a, b) == a.x < b.x \/ (a.x = b.x /\ a.y < b.y)

\* q lies in the closed triangle a b c
InTriangle(q, a, b, c) ==
    LET d1 == Cross(a, b, q)
        d2 == Cross(b, c, q)
        d3 == Cross(c, a, q)
    IN  ~((d1 < 0 \/ d2 < 0 \/ d3 < 0) /\ (d1 > 0 \/ d2 > 0 \/ d3 > 0))

\* Qhull builds a Delaunay triangulation only of points that are not all on one line
Triangulable(P) ==
    \E a \in P : \E b \in P : \E c \in P : Cross(a, b, c) # 0

\* The triangles of P that can be the Delaunay triangle holding q: not degenerate,
\* holding q, and holding no other point of P
TrianglesAt(P, q) ==
    IF \/ \A a \in P : a.x < q.x
       \/ \A a \in P : a.x > q.x
       \/ \A a \in P : a.y < q.y
       \/ \A a \in P : a.y > q.y
    THEN {}
    ELSE UNION {UNION {{<<a, b, c>> :
                    c \in {d \in P : /\ Less(b, d)
                                     /\ Cross(a, b, d) # 0
                                     /\ InTriangle(q, a, b, d)
                                     /\ \A e \in P \ {a, b, d} : ~InTriangle(e, a, b, d)}}
                : b \in {d \in P : Less(a, d)}} : a \in P}

\* One field of griddata(points, values, grid, method='linear') at sample q: NaN (the
\* default fill_value) outside the convex hull, else the barycentric mean of the
\* values at the corners of the triangle holding q
LinearAt(P, q, field) ==
    LET ts == TrianglesAt(P, q)
        vs == UNION {{t[1][field], t[2][field], t[3][field]} : t \in ts}
    IN  IF ts = {} THEN NaN
        ELSE IF \E v \in vs : v.nan THEN NaN
        ELSE Between(SetMin({v.lo : v \in vs}), SetMax({v.hi : v \in vs}))

\* values_elev and values_uncert, lines 250 and 253
ElevOf == "elev"
UncertOf == "uncert"

\* np.full((yrows, xcols), -9999)
Full(v) == [p \in Pixels |-> v]

\* A faulty fill that leaves the rasters of the except branch without data
nan_fill == Full(NaN)

\* Lines 268-269: the rasters of the except branch
except_fill == Full(Sentinel)

\* A faulty handler that catches every exception of the try block
CaughtAll == {"ValueError", "KeyError", "QhullError"}

\* except ValueError (line 265)
Caught == {"ValueError"}

\* The try block of lines 241-269: the exception raised (if any) and both rasters.
\* np.concatenate of no arrays raises ValueError, which line 265 catches; the lookup
\* of a height without entry raises KeyError and Qhull's error on points it cannot
\* triangulate is a RuntimeError, which nothing catches.
Interpolation(cd, offsets, uarr) ==
    IF Len(cd) = 0
    THEN [raised |-> "ValueError", points |-> <<>>,
          elev |-> except_fill, uncert |-> except_fill]
    ELSE IF \E pt \in all_contours(cd, offsets) : ~HasEntry(offsets, pt.elev)
    THEN [raised |-> "KeyError", points |-> {}, elev |-> <<>>, uncert |-> <<>>]
    ELSE LET P == TaggedPoints(cd, offsets, uarr)
         IN  IF ~Triangulable(P)
             THEN [raised |-> "QhullError", points |-> P, elev |-> <<>>, uncert |-> <<>>]
             ELSE [raised |-> "none", points |-> P,
                   elev |-> [p \in Pixels |-> LinearAt(P, GridPoint(p), ElevOf)],
                   uncert |-> [p \in Pixels |-> LinearAt(P, GridPoint(p), UncertOf)]]

----------------------------------------------------------------------------
\* Mask compositing and filtering (main, lines 326-351)

\* Thresholds of lines 326-328 (metres; the confidence threshold 0.25 in hundredths)
ElevThreshold == 25
BathyThreshold == -25
ConfThreshold == 25

\* Mask categories of lines 335-337
MaskElev == 1
MaskBathy == 2
MaskConf == 3

elev_mask(a) == [p \in Pixels |-> a.srtm30[p] > ElevThreshold]
\* A faulty bathymetry layer that is set where any one of the sources is deep
bathy_mask_any(a) ==
    [p \in Pixels |-> \/ a.ausbath09[p] < BathyThreshold
                      \/ a.gbr30[p] < BathyThreshold
                      \/ a.nthaus30[p] < BathyThreshold]

bathy_mask(a) == [p \in Pixels |-> /\ a.ausbath09[p] < BathyThreshold
                                  /\ a.gbr30[p] < BathyThreshold
                                  /\ a.nthaus30[p] < BathyThreshold]
conf_mask(a) == [p \in Pixels |-> a.conf[p] > ConfThreshold]

\* m[flag] = v
Assign(m, flag, v) == [p \in Pixels |-> IF flag[p] THEN v ELSE m[p]]

\* A faulty compositing order in which the terrestrial flag is written last
MaskElevLast(a) ==
    Assign(Assign(Assign(Full(NoData), conf_mask(a), MaskConf),
                  bathy_mask(a), MaskBathy),
           elev_mask(a), MaskElev)

\* Lines 334-337: later assignments overwrite earlier ones
NidemMask(a) ==
    Assign(Assign(Assign(Full(NoData), elev_mask(a), MaskElev),
                  bathy_mask(a), MaskBathy),
           conf_mask(a), MaskConf)

\* .astype(np.float32): -9999 and NaN are kept; a finite height keeps its value to
\* well below the millimetre the model counts in
AsFloat32(c) == c

\* np.where(valid_intertidal_extent, interp, -9999).astype(np.float32), lines 345-346
Constrain(valid, interp) ==
    [p \in Pixels |-> AsFloat32(IF valid[p] # 0 THEN interp[p] ELSE Sentinel)]

\* A faulty filter that lets the terrestrial flag through
FilterAboveOne(mask, unfiltered) ==
    [p \in Pixels |-> AsFloat32(IF mask[p] > 1 THEN Sentinel ELSE unfiltered[p])]

\* np.where(nidem_mask > 0, -9999, nidem_unfiltered).astype(np.float32), line 351
Filter(mask, unfiltered) ==
    [p \in Pixels |-> AsFloat32(IF mask[p] > 0 THEN Sentinel ELSE unfiltered[p])]

----------------------------------------------------------------------------
\* Uncertainty of the intervals (interval_uncertainty, lines 837-850; pandas)

\* A dataset of the archive is its centre time, counted in slots; SlotsPerDay slots
\* make a solar day
SlotsPerDay == 10
solar_day(t) == t \div SlotsPerDay

\* The end of the time range of ls7_pq_albers ('2003-05-01', line 811)
Ls7End == 4 * SlotsPerDay

\* dc.find_datasets(product=source, time=time_range, ...) (lines 811-814) on an archive
\* that holds, for each product, the centre times of the tile's datasets
find_datasets(archive, source) ==
    IF source = "ls7_pq_albers" THEN {t \in archive[source] : t < Ls7End}
    ELSE archive[source]

\* dc.group_datasets(ds, query_group_by(group_by='solar_day')).time (lines 815-820):
\* one time for each solar day, that of the day's first dataset
group_datasets(ds) ==
    {SetMin({t \in ds : solar_day(t) = d}) : d \in {solar_day(t) : t \in ds}}

RECURSIVE SeqOf(_)
\* The members of a set of numbers in rising order
SeqOf(S) == IF S = {} THEN <<>> ELSE <<SetMin(S)>> \o SeqOf(S \ {SetMin(S)})

RECURSIVE Merge(_, _)
\* sorted(a + b) of two sorted lists
Merge(a, b) ==
    IF a = <<>> THEN b
    ELSE IF b = <<>> THEN a
    ELSE IF a[1] <= b[1] THEN <<a[1]>> \o Merge(Tail(a), b)
    ELSE <<b[1]>> \o Merge(a, Tail(b))

\* all_times_obs (lines 805-823): the times of every product, one after the other,
\* then sorted
sorted_times(archive) ==
    Merge(Merge(SeqOf(group_datasets(find_datasets(archive, "ls5_pq_albers"))),
                SeqOf(group_datasets(find_datasets(archive, "ls7_pq_albers")))),
          SeqOf(group_datasets(find_datasets(archive, "ls8_pq_albers"))))

\* A tide series is the sequence of the observations' tide heights in mm (tides_obs)
min_height(tides) == SetMin({tides[i] : i \in 1 .. Len(tides)})
max_height(tides) == SetMax({tides[i] : i \in 1 .. Len(tides)})
observed_range(tides) == max_height(tides) - min_height(tides)

\* range(0, 10, 1), line 843
NumEdges == 10

\* per10_dict (line 843): key perc + 1 holds min_height + observed_range * perc * 0.1
per10_dict(tides) ==
    [key \in 1 .. NumEdges |->
        min_height(tides) + (observed_range(tides) * (key - 1)) \div 10]

\* pd.cut(x, bins, labels) with its defaults right=True, include_lowest=False: the label
\* of the interval (bins[j], bins[j + 1]] that holds x, or 0 (no interval) when none does
pd_cut(x, bins, labels) ==
    LET hit == {j \in 1 .. (Len(bins) - 1) : bins[j] < x /\ x <= bins[j + 1]}
    IN  IF hit = {} THEN 0 ELSE labels[CHOOSE j \in hit : TRUE]

\* pd.cut refuses edges that are not all different ("Bin edges must be unique")
UniqueEdges(bins) ==
    \A i \in 1 .. Len(bins) : \A j \in 1 .. Len(bins) : i # j => bins[i] # bins[j]

RECURSIVE SumOver(_, _, _)
\* The sum of f[tides[i]] over the observations i of I, f one of "x" and "xx"
SumOver(tides, I, f) ==
    IF I = {} THEN 0
    ELSE LET i == CHOOSE j \in I : TRUE
         IN  (IF f = "xx" THEN tides[i] * tides[i] ELSE tides[i])
             + SumOver(tides, I \ {i}, f)

RECURSIVE SqrtBetween(_, _, _)
\* The whole number s of lo .. hi with s * s <= v < (s + 1) * (s + 1)
SqrtBetween(v, lo, hi) ==
    IF lo >= hi THEN lo
    ELSE LET mid == (lo + hi + 1) \div 2
         IN  IF mid * mid <= v THEN SqrtBetween(v, mid, hi)
             ELSE SqrtBetween(v, lo, mid - 1)

\* Series.std() of the observations I (ddof=1): NaN for fewer than two observations,
\* else the root of vn / vd, as the whole millimetre it is or as the two whole
\* millimetres it lies between
std(tides, I) ==
    LET n == Cardinality(I)
        vn == n * SumOver(tides, I, "xx") - SumOver(tides, I, "x") * SumOver(tides, I, "x")
        vd == n * (n - 1)
    IN  IF n < 2 THEN NaN
        ELSE LET s == SqrtBetween(vn \div vd, 0, observed_range(tides))
             IN  IF s * s * vd = vn THEN Num(s) ELSE Between(s, s + 1)

\* df1_obs['interval'] (lines 846-848): the label of every observation, 0 for none
interval(tides) ==
    LET bins == per10_dict(tides)
        labels == [j \in 1 .. (NumEdges - 1) |-> j]
    IN  [i \in 1 .. Len(tides) |-> pd_cut(tides[i], bins, labels)]

\* Lines 837-850: the exception pd.cut raises (if any), else one deviation per label,
\* in label order (groupby over the categories)
interval_uncertainty(tides) ==
    LET labelled == interval(tides)
    IN  IF ~UniqueEdges(per10_dict(tides))
        THEN [raised |-> "ValueError", values |-> <<>>]
        ELSE [raised |-> "none",
              values |-> [j \in 1 .. (NumEdges - 1) |->
                             std(tides, {i \in 1 .. Len(tides) : labelled[i] = j})]]

----------------------------------------------------------------------------
\* Inputs

\* Classification rasters: a background label, a rectangular patch of a second label,
\* and nodata from row nr and from column nc on (the tile's edge).
LabelPairs == {<<0, 1>>, <<1, 0>>, <<1, 4>>, <<4, 1>>, <<4, 9>>, <<9, 4>>}

PatchRaster(bg, v, r1, r2, c1, c2, nr, nc) ==
    [p \in Pixels |->
        IF p[1] >= nr \/ p[2] >= nc THEN ItemNoData
        ELSE IF p[1] >= r1 /\ p[1] <= r2 /\ p[2] >= c1 /\ p[2] <= c2 THEN v
        ELSE bg]

\* Classification rasters with data in two pixels only, (0, 1) and (1, 0): the pixels
\* between them are equally far from both, and the far corner is out of the filler's reach
EdgeRasters ==
    {[p \in Pixels |-> IF p = <<0, 1>> THEN lp[1]
                       ELSE IF p = <<1, 0>> THEN lp[2]
                       ELSE ItemNoData] : lp \in LabelPairs}

ItemRasters ==
    {PatchRaster(lp[1], lp[2], r1, r2, c1, c2, nr, nc) :
        lp \in LabelPairs, r1 \in Rows, r2 \in Rows, c1 \in Cols, c2 \in Cols,
        nr \in {1, YRows}, nc \in {0, 2, XCols}}
    \cup EdgeRasters

\* elevation.txt: the tile's 9 heights, in millimetres
ElevTables == {[i \in 1 .. NumLevels |-> (i - 5) * 100]}

\* A height table in which the two lowest levels have the same height
DuplicateHeights == [i \in 1 .. NumLevels |-> IF i = 1 THEN -300 ELSE (i - 5) * 100]

\* A height table in which the two lowest levels differ by less than a centimetre
NearHeights ==
    [i \in 1 .. NumLevels |-> IF i = 1 THEN -304 ELSE IF i = 2 THEN -301 ELSE (i - 5) * 100]

\* A height table in which the height of the second level is no number
NaNHeights == [i \in 1 .. NumLevels |-> IF i = 2 THEN NaNHeight ELSE (i - 5) * 100]

\* Tide heights (mm) of a tile's observations: the lowest, two in each tenth of the
\* range, the highest; none on an inner edge of a tenth
DefaultTides ==
    <<0>> \o [i \in 1 .. 2 * NumEdges |->
                 100 * ((i - 1) \div 2) + 50
                 + (IF i % 2 = 0 THEN 1 ELSE -1) * (10 + 4 * ((i + 1) \div 2))] \o <<1000>>

\* An archive with one ls5 dataset on each of n days
DatasetsFor(n) ==
    [ls5_pq_albers |-> {d * SlotsPerDay : d \in 1 .. n}, ls7_pq_albers |-> {},
     ls8_pq_albers |-> {}]

DefaultDatasets == DatasetsFor(Len(DefaultTides))

\* Masking rasters on the tile's grid: each source at its threshold or just past it,
\* at most one bathymetry source short of its threshold
AuxInputs ==
    {[srtm30 |-> Full(s), ausbath09 |-> Full(b[1]), gbr30 |-> Full(b[2]),
      nthaus30 |-> Full(b[3]), conf |-> Full(c)] :
        s \in {ElevThreshold, ElevThreshold + 1},
        b \in {<<BathyThreshold - 1, BathyThreshold - 1, BathyThreshold - 1>>,
               <<BathyThreshold, BathyThreshold - 1, BathyThreshold - 1>>,
               <<BathyThreshold - 1, BathyThreshold - 1, BathyThreshold>>},
        c \in {ConfThreshold, ConfThreshold + 1}}

\* sys.argv of a run for tile 33, and of a run started without a tile
TileArgv == <<"NIDEM_generation.py", "33">>
NoTileArgv == <<"NIDEM_generation.py">>

\* Lines 121, 392: the polygon ids of the tiles run here; each tile has one NetCDF path,
\* 'output_data/netcdf/NIDEM_{polygon_id}_{coord_str}.nc'
Tiles == {"33", "34"}

polygon_id(r) == inputs[r].argv[2]

\* Line 394: os.path.exists(filename_netcdf) is False
NoFile == 0

----------------------------------------------------------------------------
\* The run of main()

Unset == <<>>

\* 'scratch/temp.tif' before any run: no writer yet
NoScratch == [writer |-> 0, source |-> "none", data |-> Unset, writers |-> {}]

InitRuns(R, ins) ==
    /\ inputs \in [R -> ins]
    /\ pc = [r \in R |-> "start"]
    /\ err = [r \in R |-> "none"]
    /\ scratch = NoScratch
    /\ netcdf_file = [t \in Tiles |-> NoFile]
    /\ masking = [r \in R |-> Unset]
    /\ all_times_obs = [r \in R |-> Unset]
    /\ contour_offsets = [r \in R |-> Unset]
    /\ uncertainty_array = [r \in R |-> Unset]
    /\ valid_intertidal_extent = [r \in R |-> Unset]
    /\ item_array = [r \in R |-> Unset]
    /\ z_values = [r \in R |-> Unset]
    /\ contour_dict = [r \in R |-> Unset]
    /\ shapefile = [r \in R |-> Unset]
    /\ points = [r \in R |-> Unset]
    /\ interp_elev_array = [r \in R |-> Unset]
    /\ interp_uncert_array = [r \in R |-> Unset]
    /\ aux = [r \in R |-> Unset]
    /\ nidem_mask = [r \in R |-> Unset]
    /\ nidem_uncertainty = [r \in R |-> Unset]
    /\ nidem_unfiltered = [r \in R |-> Unset]
    /\ nidem_filtered = [r \in R |-> Unset]
    /\ exported = [r \in R |-> <<>>]

\* The rasters whose lowest levels all have a contour: labels 0 and 4 side by side
AlignedRasters ==
    {PatchRaster(0, 4, 0, YRows - 1, c1, XCols - 1, YRows, XCols) : c1 \in {1, 2}}

TileInputs ==
    {[argv |-> TileArgv, item |-> a, offsets |-> o, tides |-> DefaultTides,
      datasets |-> DefaultDatasets,
      masking_inputs |-> AuxInputs] :
        a \in ItemRasters, o \in ElevTables}
    \cup {[argv |-> TileArgv, item |-> a, offsets |-> o,
           tides |-> DefaultTides,
      datasets |-> DefaultDatasets, masking_inputs |-> AuxInputs] :
             a \in AlignedRasters, o \in {DuplicateHeights, NearHeights, NaNHeights}}
    \cup {[argv |-> NoTileArgv, item |-> a, offsets |-> o, tides |-> DefaultTides,
      datasets |-> DefaultDatasets,
           masking_inputs |-> AuxInputs] :
             a \in AlignedRasters, o \in ElevTables}

Init == InitRuns({1}, TileInputs)

\* Lines 109-122: without a tile on the command line main() prints "You must specify a
\* polygon ID" and calls sys.exit(), which raises SystemExit (the exit status is 0)
ParseArgs(r) ==
    /\ pc[r] = "start"
    /\ err[r] = "none"
    /\ pc' = [pc EXCEPT ![r] = IF Len(inputs[r].argv) < 2 THEN "exited" ELSE "import"]
    /\ err' = [err EXCEPT ![r] = IF Len(inputs[r].argv) < 2 THEN "SystemExit" ELSE "none"]
    /\ UNCHANGED <<inputs, netcdf_file, all_times_obs,
                   scratch, masking, contour_offsets, uncertainty_array,
                  valid_intertidal_extent, item_array, z_values, contour_dict, shapefile,
                  points, interp_elev_array, interp_uncert_array, aux, nidem_mask,
                  nidem_uncertainty, nidem_unfiltered, nidem_filtered, exported>>

\* Lines 152-173: read the raster, derive the valid extent, nodata to NaN
ImportRaster(r) ==
    /\ pc[r] = "import"
    /\ err[r] = "none"
    /\ valid_intertidal_extent' =
           [valid_intertidal_extent EXCEPT ![r] = ValidExtent(inputs[r].item)]
    /\ item_array' = [item_array EXCEPT ![r] = ToFloatNaN(inputs[r].item)]
    /\ pc' = [pc EXCEPT ![r] = "gapfill"]
    /\ UNCHANGED <<err, inputs, netcdf_file, all_times_obs,
                   scratch, masking, contour_offsets,
                   uncertainty_array, z_values,
                  contour_dict, shapefile, points, interp_elev_array, interp_uncert_array,
                  aux, nidem_mask, nidem_uncertainty, nidem_unfiltered, nidem_filtered,
                  exported>>

\* Lines 177-187
GapFill(r) ==
    /\ pc[r] = "gapfill"
    /\ err[r] = "none"
    /\ \E filled \in GapFilled(item_array[r]) :
           item_array' = [item_array EXCEPT ![r] = filled]
    /\ pc' = [pc EXCEPT ![r] = "tables"]
    /\ UNCHANGED <<err, inputs, netcdf_file, all_times_obs,
                   scratch, masking, contour_offsets, uncertainty_array,
                  valid_intertidal_extent, z_values, contour_dict, shapefile, points,
                  interp_elev_array, interp_uncert_array, aux, nidem_mask,
                  nidem_uncertainty, nidem_unfiltered, nidem_filtered, exported>>

\* Lines 199-212: the tile's heights and the uncertainties of interval_uncertainty,
\* whose exception nothing catches
LoadTables(r) ==
    /\ pc[r] = "tables"
    /\ err[r] = "none"
    /\ all_times_obs' = [all_times_obs EXCEPT ![r] = sorted_times(inputs[r].datasets)]
    /\ LET res == interval_uncertainty(inputs[r].tides)
       IN  \/ /\ res.raised = "none"
              /\ contour_offsets' = [contour_offsets EXCEPT ![r] = inputs[r].offsets]
              /\ uncertainty_array' = [uncertainty_array EXCEPT ![r] = res.values]
              /\ pc' = [pc EXCEPT ![r] = "contours"]
              /\ UNCHANGED err
           \/ /\ res.raised # "none"
              /\ contour_offsets' = [contour_offsets EXCEPT ![r] = inputs[r].offsets]
              /\ err' = [err EXCEPT ![r] = res.raised]
              /\ UNCHANGED <<pc, uncertainty_array>>
    /\ UNCHANGED <<inputs, scratch, netcdf_file, masking, valid_intertidal_extent, item_array,
                  z_values,
                  contour_dict, shapefile, points, interp_elev_array, interp_uncert_array,
                  aux, nidem_mask, nidem_uncertainty, nidem_unfiltered, nidem_filtered,
                  exported>>

\* Lines 222-229: contour_extract, which also writes the contour shapefile
ContourExtract(r) ==
    /\ pc[r] = "contours"
    /\ err[r] = "none"
    /\ z_values' = [z_values EXCEPT ![r] = main_z_values]
    /\ LET cd == ContoursFrom(item_array[r], 0)
       IN  /\ contour_dict' = [contour_dict EXCEPT ![r] = cd]
           /\ shapefile' = [shapefile EXCEPT ![r] =
                  ShapefileRecords(cd, contour_offsets[r], uncertainty_array[r])]
    /\ exported' = [exported EXCEPT ![r] = Append(@, "contours")]
    /\ pc' = [pc EXCEPT ![r] = "interpolate"]
    /\ UNCHANGED <<err, inputs, netcdf_file, all_times_obs,
                   scratch, masking, contour_offsets, uncertainty_array,
                  valid_intertidal_extent, item_array, points, interp_elev_array,
                  interp_uncert_array, aux, nidem_mask, nidem_uncertainty,
                  nidem_unfiltered, nidem_filtered>>

\* Lines 241-269: tag the contour vertices and interpolate them onto the grid
Interpolate(r) ==
    /\ pc[r] = "interpolate"
    /\ err[r] = "none"
    /\ LET res == Interpolation(contour_dict[r], contour_offsets[r], uncertainty_array[r])
       IN  /\ points' = [points EXCEPT ![r] = res.points]
           /\ \/ /\ res.raised = "none"
                 /\ interp_elev_array' = [interp_elev_array EXCEPT ![r] = res.elev]
                 /\ interp_uncert_array' = [interp_uncert_array EXCEPT ![r] = res.uncert]
                 /\ pc' = [pc EXCEPT ![r] = "open_mask_inputs"]
                 /\ UNCHANGED err
              \/ /\ res.raised \in Caught
                 /\ interp_elev_array' = [interp_elev_array EXCEPT ![r] = except_fill]
                 /\ interp_uncert_array' = [interp_uncert_array EXCEPT ![r] = except_fill]
                 /\ pc' = [pc EXCEPT ![r] = "open_mask_inputs"]
                 /\ UNCHANGED err
              \/ /\ res.raised \notin ({"none"} \cup Caught)
                 /\ err' = [err EXCEPT ![r] = res.raised]
                 /\ UNCHANGED <<pc, interp_elev_array, interp_uncert_array>>
    /\ UNCHANGED <<inputs, netcdf_file, all_times_obs,
                   scratch, masking, contour_offsets, uncertainty_array,
                  valid_intertidal_extent, item_array, z_values, contour_dict, shapefile,
                  aux, nidem_mask, nidem_uncertainty, nidem_unfiltered, nidem_filtered,
                  exported>>

\* Lines 128-137 and 288-289: the masking rasters the configuration names and the
\* tile's confidence raster, as they are on disk
OpenMaskInputs(r) ==
    /\ pc[r] = "open_mask_inputs"
    /\ err[r] = "none"
    /\ \E m \in inputs[r].masking_inputs : masking' = [masking EXCEPT ![r] = m]
    /\ pc' = [pc EXCEPT ![r] = "reproject_srtm30"]
    /\ UNCHANGED <<err, inputs, netcdf_file, all_times_obs,
                   scratch, contour_offsets, uncertainty_array,
                   valid_intertidal_extent, item_array, z_values, contour_dict, shapefile,
                   points, interp_elev_array, interp_uncert_array, aux, nidem_mask,
                   nidem_uncertainty, nidem_unfiltered, nidem_filtered, exported>>

\* reproject_to_template(input_raster, template_raster, 'scratch/temp.tif') (lines
\* 550-621): creates the scratch file anew, warps the source into it and returns the
\* open dataset
Reproject(r, at, source, next) ==
    /\ pc[r] = at
    /\ err[r] = "none"
    /\ scratch' = [writer |-> r, source |-> source, data |-> masking[r][source],
                   writers |-> scratch.writers \cup {r}]
    /\ pc' = [pc EXCEPT ![r] = next]
    /\ UNCHANGED <<err, inputs, netcdf_file, all_times_obs,
                   masking, contour_offsets, uncertainty_array,
                  valid_intertidal_extent, item_array, z_values, contour_dict, shapefile,
                  points, interp_elev_array, interp_uncert_array, aux, nidem_mask,
                  nidem_uncertainty, nidem_unfiltered, nidem_filtered, exported>>

\* Lines 292-313
ReprojectSrtm30(r) == Reproject(r, "reproject_srtm30", "srtm30", "reproject_ausbath09")
ReprojectAusbath09(r) == Reproject(r, "reproject_ausbath09", "ausbath09", "reproject_gbr30")
ReprojectGbr30(r) == Reproject(r, "reproject_gbr30", "gbr30", "reproject_nthaus30")
ReprojectNthaus30(r) == Reproject(r, "reproject_nthaus30", "nthaus30", "read_mask_inputs")

\* What ReadAsArray can return for a dataset that reproject_to_template returned: the
\* blocks still in the dataset's cache (what this run warped into it), or the blocks of
\* the file as it is now, which a later reprojection has created anew under the
\* dataset; which of the two depends on GDAL's block cache
ReadAsArray(r, source) == {masking[r][source], scratch.data}

\* Lines 316-320: the confidence raster, read from its own file, and the four
\* reprojected masking rasters
ReadMaskInputs(r) ==
    /\ pc[r] = "read_mask_inputs"
    /\ err[r] = "none"
    /\ \E s \in ReadAsArray(r, "srtm30") : \E b1 \in ReadAsArray(r, "ausbath09") :
       \E b2 \in ReadAsArray(r, "gbr30") : \E b3 \in ReadAsArray(r, "nthaus30") :
           aux' = [aux EXCEPT ![r] = [srtm30 |-> s, ausbath09 |-> b1, gbr30 |-> b2,
                                      nthaus30 |-> b3, conf |-> masking[r].conf]]
    /\ pc' = [pc EXCEPT ![r] = "mask"]
    /\ UNCHANGED <<err, inputs, netcdf_file, all_times_obs,
                   scratch, masking, contour_offsets, uncertainty_array,
                  valid_intertidal_extent, item_array, z_values, contour_dict, shapefile,
                  points, interp_elev_array, interp_uncert_array, nidem_mask,
                  nidem_uncertainty, nidem_unfiltered, nidem_filtered, exported>>

\* The arrays of lines 345-351
nidem_uncertainty_of(r) == Constrain(valid_intertidal_extent[r], interp_uncert_array[r])
\* A faulty unfiltered raster that has the mask applied
nidem_unfiltered_masked(r) ==
    Filter(NidemMask(aux[r]), Constrain(valid_intertidal_extent[r], interp_elev_array[r]))

nidem_unfiltered_of(r) == Constrain(valid_intertidal_extent[r], interp_elev_array[r])
nidem_filtered_of(r, mask, unfiltered) == Filter(mask, unfiltered)

\* Lines 326-351: the composite mask and the three constrained rasters
MaskAndFilter(r) ==
    /\ pc[r] = "mask"
    /\ err[r] = "none"
    /\ LET mask == NidemMask(aux[r])
           unfiltered == nidem_unfiltered_of(r)
       IN  /\ nidem_mask' = [nidem_mask EXCEPT ![r] = mask]
           /\ nidem_uncertainty' = [nidem_uncertainty EXCEPT ![r] = nidem_uncertainty_of(r)]
           /\ nidem_unfiltered' = [nidem_unfiltered EXCEPT ![r] = unfiltered]
           /\ nidem_filtered' =
                  [nidem_filtered EXCEPT ![r] = nidem_filtered_of(r, mask, unfiltered)]
    /\ pc' = [pc EXCEPT ![r] = "export_filtered"]
    /\ UNCHANGED <<err, inputs, netcdf_file, all_times_obs,
                   scratch, masking, contour_offsets, uncertainty_array,
                  valid_intertidal_extent, item_array, z_values, contour_dict, shapefile,
                  points, interp_elev_array, interp_uncert_array, aux, exported>>

\* A faulty export step that goes on to the next artifact when the write fails
ExportSkipping(r, at, artifact, next) ==
    /\ pc[r] = at
    /\ err[r] = "none"
    /\ \/ exported' = [exported EXCEPT ![r] = Append(@, artifact)]
       \/ UNCHANGED exported
    /\ pc' = [pc EXCEPT ![r] = next]
    /\ UNCHANGED <<err, inputs, netcdf_file, all_times_obs,
                   scratch, masking, contour_offsets, uncertainty_array,
                   valid_intertidal_extent, item_array, z_values, contour_dict, shapefile,
                   points, interp_elev_array, interp_uncert_array, aux, nidem_mask,
                   nidem_uncertainty, nidem_unfiltered, nidem_filtered>>

\* One export step: the artifact is written and main() moves on, or the write raises
\* (no such directory, disk full) and ends the run
Export(r, at, artifact, next) ==
    /\ pc[r] = at
    /\ err[r] = "none"
    /\ \/ /\ exported' = [exported EXCEPT ![r] = Append(@, artifact)]
          /\ pc' = [pc EXCEPT ![r] = next]
          /\ UNCHANGED err
       \/ /\ err' = [err EXCEPT ![r] = "IOError"]
          /\ UNCHANGED <<pc, exported>>
    /\ UNCHANGED <<inputs, netcdf_file, all_times_obs,
                   scratch, masking, contour_offsets, uncertainty_array,
                  valid_intertidal_extent, item_array, z_values, contour_dict, shapefile,
                  points, interp_elev_array, interp_uncert_array, aux, nidem_mask,
                  nidem_uncertainty, nidem_unfiltered, nidem_filtered>>

\* Lines 355-359, 363-367, 371-375, 379-384: array_to_geotiff
ExportFiltered(r) == Export(r, "export_filtered", "nidem", "export_unfiltered")
ExportUnfiltered(r) == Export(r, "export_unfiltered", "nidem_unfiltered", "export_uncertainty")
ExportUncertainty(r) == Export(r, "export_uncertainty", "nidem_uncertainty", "export_mask")

\* A faulty mask export which creates the tile's NetCDF before the mask raster is written
ExportMaskAfterNetCDF(r) ==
    /\ pc[r] = "export_mask"
    /\ err[r] = "none"
    /\ netcdf_file' = [netcdf_file EXCEPT ![polygon_id(r)] = r]
    /\ \/ /\ exported' = [exported EXCEPT ![r] = Append(@, "nidem_mask")]
          /\ pc' = [pc EXCEPT ![r] = "export_netcdf"]
          /\ UNCHANGED err
       \/ /\ err' = [err EXCEPT ![r] = "IOError"]
          /\ UNCHANGED <<pc, exported>>
    /\ UNCHANGED <<inputs, all_times_obs, scratch, masking, contour_offsets, uncertainty_array,
                  valid_intertidal_extent, item_array, z_values, contour_dict, shapefile,
                  points, interp_elev_array, interp_uncert_array, aux, nidem_mask,
                  nidem_uncertainty, nidem_unfiltered, nidem_filtered>>

ExportMask(r) == Export(r, "export_mask", "nidem_mask", "export_netcdf")

\* Lines 391-494: the NetCDF. An existing file at the tile's path is removed (394-395);
\* create_netcdf_storage_unit creates the file (404); the variables are written and the
\* file is closed (494). The step can raise before the removal, between the removal and
\* the creation, or after the creation, which leaves an unfinished file behind.
ExportNetCDF(r) ==
    /\ pc[r] = "export_netcdf"
    /\ err[r] = "none"
    /\ LET tile == polygon_id(r)
           removed == [netcdf_file EXCEPT ![tile] = NoFile]
           created == [netcdf_file EXCEPT ![tile] = r]
       IN  \/ /\ netcdf_file' = created
              /\ exported' = [exported EXCEPT ![r] = Append(@, "netcdf")]
              /\ pc' = [pc EXCEPT ![r] = "done"]
              /\ UNCHANGED err
           \/ /\ netcdf_file' \in {netcdf_file, removed, created}
              /\ err' = [err EXCEPT ![r] = "IOError"]
              /\ UNCHANGED <<pc, exported>>
    /\ UNCHANGED <<inputs, all_times_obs, scratch, masking, contour_offsets, uncertainty_array,
                  valid_intertidal_extent, item_array, z_values, contour_dict, shapefile,
                  points, interp_elev_array, interp_uncert_array, aux, nidem_mask,
                  nidem_uncertainty, nidem_unfiltered, nidem_filtered>>

Step(r) ==
    \/ ParseArgs(r)
    \/ ImportRaster(r)
    \/ GapFill(r)
    \/ LoadTables(r)
    \/ ContourExtract(r)
    \/ Interpolate(r)
    \/ OpenMaskInputs(r)
    \/ ReprojectSrtm30(r)
    \/ ReprojectAusbath09(r)
    \/ ReprojectGbr30(r)
    \/ ReprojectNthaus30(r)
    \/ ReadMaskInputs(r)
    \/ MaskAndFilter(r)
    \/ ExportFiltered(r)
    \/ ExportUnfiltered(r)
    \/ ExportUncertainty(r)
    \/ ExportMask(r)
    \/ ExportNetCDF(r)

\* One run of main()
Next == Step(1)

Spec == Init /\ [][Next]_vars

\* The run has ended: all of main() was executed, sys.exit() was called, or an
\* exception left main()
Ended(r) == pc[r] \in {"done", "exited"} \/ err[r] # "none"

\* Two runs over the same tile inputs, the second started once the first has ended,
\* each reading masking rasters of its own
PairRasters ==
    {PatchRaster(lp[1], lp[2], rr, rr, c1, c2, YRows, XCols) :
        lp \in LabelPairs, rr \in {1},
        c1 \in {0, 1}, c2 \in {1, XCols - 1}}

\* Masking rasters whose bathymetry does not mask the tile
PairAux == {m \in AuxInputs : m.nthaus30 = Full(BathyThreshold)}

PairInputs ==
    {[argv |-> TileArgv, item |-> a, offsets |-> o, tides |-> DefaultTides,
      datasets |-> DefaultDatasets,
      masking_inputs |-> PairAux] :
        a \in PairRasters, o \in ElevTables}

InitPair == InitRuns({1, 2}, PairInputs) /\ inputs[1] = inputs[2]

NextPair ==
    \/ Step(1)
    \/ (pc[1] = "done" /\ Step(2))

SpecPair == InitPair /\ [][NextPair]_vars

\* Two runs for different tiles, started as separate processes at the same time: tile 33
\* with masking rasters that mask nothing, tile 34 with masking rasters that mask
OtherTileArgv == <<"NIDEM_generation.py", "34">>

UnmaskedAux ==
    {m \in AuxInputs : /\ m.srtm30 = Full(ElevThreshold)
                       /\ m.nthaus30 = Full(BathyThreshold)
                       /\ m.conf = Full(ConfThreshold)}

MaskedAux ==
    {m \in AuxInputs : /\ m.srtm30 = Full(ElevThreshold + 1)
                       /\ m.ausbath09 = Full(BathyThreshold - 1)
                       /\ m.nthaus30 = Full(BathyThreshold - 1)}

ConcInputs ==
    {[argv |-> TileArgv, item |-> PatchRaster(4, 1, 1, 1, 1, 1, YRows, XCols),
      offsets |-> o, tides |-> DefaultTides,
      datasets |-> DefaultDatasets, masking_inputs |-> UnmaskedAux] :
        o \in ElevTables}
    \cup {[argv |-> OtherTileArgv, item |-> PatchRaster(1, 4, 1, 1, 1, 1, YRows, XCols),
           offsets |-> o, tides |-> DefaultTides,
      datasets |-> DefaultDatasets, masking_inputs |-> MaskedAux] :
             o \in ElevTables}

InitConc ==
    /\ InitRuns({1, 2}, ConcInputs)
    /\ inputs[1].argv = TileArgv
    /\ inputs[2].argv = OtherTileArgv

NextConc == Step(1) \/ Step(2)

SpecConc == InitConc /\ [][NextConc]_vars

\* Tide series: the lowest height once or twice, any of a pool of heights that lie on
\* no edge of a tenth, the highest height; and series of a single height
TidePool == {40, 60, 150, 230, 270, 850, 950}

TideSeries ==
    {low \o SeqOf(S) \o <<1000>> : low \in {<<0>>, <<0, 0>>}, S \in SUBSET TidePool}
    \cup {<<500>>, <<500, 500>>}

TideInputs ==
    {[argv |-> TileArgv, item |-> PatchRaster(4, 1, 1, 1, 1, 1, YRows, XCols),
      offsets |-> o, tides |-> t, datasets |-> DatasetsFor(Len(t)),
      masking_inputs |-> MaskedAux] :
        o \in ElevTables, t \in TideSeries}

InitTides == InitRuns({1}, TideInputs)

SpecTides == InitTides /\ [][Next]_vars

\* Archives: ls5 with two datasets on day 1 and one on day 2; ls7 with one on day 1, one
\* on day 3 and one after the end of its time range; ls8 with two on day 5
Archives ==
    {[ls5_pq_albers |-> a, ls7_pq_albers |-> b, ls8_pq_albers |-> c] :
        a \in SUBSET {SlotsPerDay, SlotsPerDay + 1, 2 * SlotsPerDay},
        b \in SUBSET {SlotsPerDay + 2, 3 * SlotsPerDay, Ls7End},
        c \in SUBSET {5 * SlotsPerDay, 5 * SlotsPerDay + 1}}

\* The heights predict_tide returns for n times
PredictedTides(n) == [i \in 1 .. n |-> 100 * (i - 1) * (i - 1)]

\* Tiles with at least two observations
TimeInputs ==
    {[argv |-> TileArgv, item |-> PatchRaster(4, 1, 1, 1, 1, 1, YRows, XCols),
      offsets |-> o, tides |-> PredictedTides(Len(sorted_times(d))), datasets |-> d,
      masking_inputs |-> MaskedAux] :
        o \in ElevTables, d \in {e \in Archives : Len(sorted_times(e)) >= 2}}

InitTimes == InitRuns({1}, TimeInputs)

SpecTimes == InitTimes /\ [][Next]_vars

----------------------------------------------------------------------------
\* Stages of a run

Runs == DOMAIN pc
Failed(r) == err[r] # "none"
BeforeGapFill == {"start", "exited", "import", "gapfill"}
BeforeTables == BeforeGapFill \cup {"tables"}
BeforeContours == BeforeTables \cup {"contours"}
BeforeInterpolation == BeforeContours \cup {"interpolate"}
BeforeMask ==
    BeforeInterpolation \cup {"open_mask_inputs", "reproject_srtm30", "reproject_ausbath09",
                              "reproject_gbr30", "reproject_nthaus30", "read_mask_inputs",
                              "mask"}
\* Interpolate has acted: main() is past line 269, or an exception left the try block
InterpolateActed(r) == pc[r] \notin BeforeInterpolation \/ (pc[r] = "interpolate" /\ Failed(r))
AfterInterpolation(r) == pc[r] \notin BeforeInterpolation
AfterMask(r) == pc[r] \notin BeforeMask
RawLabel(r, p) == inputs[r].item[p]

----------------------------------------------------------------------------
\* C1: in the scattered point set, every vertex of a contour extracted at level k
\* (0.5 + k) carries the k-th entry of the tile's height table as its elevation,
\* whichever levels survive.
C1_VertexCarriesLevelHeight ==
    \A r \in Runs :
        InterpolateActed(r) =>
            \A i \in 1 .. Len(contour_dict[r]) :
                \A w \in UNION contour_dict[r][i].contours :
                    \A pt \in points[r] :
                        (pt.x = w.x /\ pt.y = w.y) =>
                            pt.elev = Num(contour_offsets[r][contour_dict[r][i].z + 1])

\* C2: with no surviving polyline the interpolation step raises nothing past main:
\* both interpolated rasters are all -9999, the run goes on through masking and
\* export, and the filtered, unfiltered and uncertainty outputs are all -9999.
C2_EmptyPointSetRecovered ==
    \A r \in Runs :
        (InterpolateActed(r) /\ contour_dict[r] = <<>>) =>
            /\ pc[r] \notin BeforeInterpolation
            /\ err[r] \in {"none", "IOError"}
            /\ \A p \in Pixels : /\ interp_elev_array[r][p] = Sentinel
                                 /\ interp_uncert_array[r][p] = Sentinel
            /\ AfterMask(r) =>
                   \A p \in Pixels : /\ nidem_filtered[r][p] = Sentinel
                                     /\ nidem_unfiltered[r][p] = Sentinel
                                     /\ nidem_uncertainty[r][p] = Sentinel

C2_Witness ==
    \E r \in Runs :
        /\ pc[r] = "done"
        /\ contour_dict[r] = <<>>
        /\ Len(exported[r]) = 6
        /\ \E p \in Pixels : valid_intertidal_extent[r][p] = 1

\* C3: a point set that is not empty but cannot be triangulated (one point, or all
\* points on one line) gives all -9999 rasters and no exception, as the empty set does.
C3_DegeneratePointSetRecovered ==
    \A r \in Runs :
        (InterpolateActed(r) /\ contour_dict[r] # <<>> /\ ~Triangulable(points[r])) =>
            /\ pc[r] \notin BeforeInterpolation
            /\ err[r] \in {"none", "IOError"}
            /\ \A p \in Pixels : /\ interp_elev_array[r][p] = Sentinel
                                 /\ interp_uncert_array[r][p] = Sentinel

\* C4: every pixel of the filtered, unfiltered and uncertainty outputs is a finite
\* value or exactly -9999; a valid intertidal pixel outside the convex hull of the
\* points carries -9999, not NaN.
C4_OutputsFiniteOrSentinel ==
    \A r \in Runs :
        AfterMask(r) =>
            \A p \in Pixels : /\ IsFinite(nidem_filtered[r][p])
                              /\ IsFinite(nidem_unfiltered[r][p])
                              /\ IsFinite(nidem_uncertainty[r][p])

\* C5: the mask is 3 where the confidence criterion holds, else 2 where the
\* bathymetric criterion holds, else 1 where the terrestrial criterion holds, else
\* -9999; it takes no other value.
C5_MaskPriority ==
    \A r \in Runs :
        AfterMask(r) =>
            \A p \in Pixels :
                /\ nidem_mask[r][p] =
                       (IF conf_mask(aux[r])[p] THEN 3
                        ELSE IF bathy_mask(aux[r])[p] THEN 2
                        ELSE IF elev_mask(aux[r])[p] THEN 1
                        ELSE -9999)
                /\ nidem_mask[r][p] \in {-9999, 1, 2, 3}

C5_Witness ==
    \E r \in Runs :
        /\ AfterMask(r)
        /\ \E p \in Pixels : /\ conf_mask(aux[r])[p]
                             /\ bathy_mask(aux[r])[p]
                             /\ nidem_mask[r][p] = 3

TerrestrialOnly(r, p) ==
    elev_mask(aux[r])[p] /\ ~bathy_mask(aux[r])[p] /\ ~conf_mask(aux[r])[p]

\* C6 as stated: a masked pixel (1, 2 or 3) is -9999 in the filtered output, an
\* unmasked pixel has the unfiltered value there, and a pixel with only the
\* terrestrial flag is -9999 in the filtered output while the unfiltered output keeps
\* its interpolated value.
C6_AsStated ==
    \A r \in Runs :
        AfterMask(r) =>
            \A p \in Pixels :
                /\ nidem_mask[r][p] \in {1, 2, 3} => nidem_filtered[r][p] = Sentinel
                /\ nidem_mask[r][p] = -9999 => nidem_filtered[r][p] = nidem_unfiltered[r][p]
                /\ TerrestrialOnly(r, p) =>
                       /\ nidem_filtered[r][p] = Sentinel
                       /\ nidem_unfiltered[r][p] = interp_elev_array[r][p]

\* C6 as amended: as stated, but the unfiltered output keeps the interpolated value
\* of a terrestrial-only pixel only inside the valid intertidal extent (raw label
\* strictly between 0 and 9); outside it the unfiltered output is -9999.
C6_FilteredFollowsMask ==
    \A r \in Runs :
        AfterMask(r) =>
            \A p \in Pixels :
                /\ nidem_mask[r][p] \in {1, 2, 3} => nidem_filtered[r][p] = Sentinel
                /\ nidem_mask[r][p] = -9999 => nidem_filtered[r][p] = nidem_unfiltered[r][p]
                /\ TerrestrialOnly(r, p) =>
                       /\ nidem_filtered[r][p] = Sentinel
                       /\ (RawLabel(r, p) > 0 /\ RawLabel(r, p) < 9) =>
                              nidem_unfiltered[r][p] = interp_elev_array[r][p]
                       /\ ~(RawLabel(r, p) > 0 /\ RawLabel(r, p) < 9) =>
                              nidem_unfiltered[r][p] = Sentinel

C6_Witness ==
    \E r \in Runs :
        /\ AfterMask(r)
        /\ \E p \in Pixels : /\ TerrestrialOnly(r, p)
                             /\ IsFinite(interp_elev_array[r][p])
                             /\ nidem_unfiltered[r][p] = interp_elev_array[r][p]
                             /\ nidem_unfiltered[r][p] # Sentinel
                             /\ nidem_filtered[r][p] = Sentinel
                             /\ nidem_mask[r][p] = 1

\* C7: two runs over the same classification raster, heights and uncertainties that
\* differ only in the masking rasters give the same unfiltered and uncertainty
\* rasters.
C7_UnfilteredIgnoresMask ==
    (/\ Runs = {1, 2}
     /\ AfterMask(1) /\ AfterMask(2)
     /\ inputs[1] = inputs[2]
     /\ item_array[1] = item_array[2]) =>
        /\ nidem_unfiltered[1] = nidem_unfiltered[2]
        /\ nidem_uncertainty[1] = nidem_uncertainty[2]

C7_Witness ==
    /\ Runs = {1, 2}
    /\ pc[1] = "done" /\ pc[2] = "done"
    /\ inputs[1] = inputs[2]
    /\ aux[1] # aux[2]
    /\ nidem_mask[1] # nidem_mask[2]
    /\ nidem_filtered[1] # nidem_filtered[2]
    /\ nidem_unfiltered[1] = nidem_unfiltered[2]
    /\ \E p \in Pixels : IsFinite(nidem_unfiltered[1][p]) /\ nidem_unfiltered[1][p] # Sentinel

\* C8: a pixel whose raw label is not strictly between 0 and 9 (0, 9 or nodata, also
\* nodata that the gap filler fills) is -9999 in the filtered, unfiltered and
\* uncertainty outputs, whatever interpolation produced there.
C8_OutsideExtentIsNoData ==
    \A r \in Runs :
        AfterMask(r) =>
            \A p \in Pixels :
                ~(RawLabel(r, p) > 0 /\ RawLabel(r, p) < 9) =>
                    /\ nidem_filtered[r][p] = Sentinel
                    /\ nidem_unfiltered[r][p] = Sentinel
                    /\ nidem_uncertainty[r][p] = Sentinel

C8_Witness ==
    \E r \in Runs :
        /\ AfterMask(r)
        /\ \E p \in Pixels : /\ RawLabel(r, p) \in {0, 9}
                             /\ IsFinite(interp_elev_array[r][p])
                             /\ interp_elev_array[r][p] # Sentinel
                             /\ nidem_unfiltered[r][p] = Sentinel
        /\ \E p \in Pixels : /\ RawLabel(r, p) = ItemNoData
                             /\ IsFinite(item_array[r][p])
                             /\ nidem_unfiltered[r][p] = Sentinel

WasNoData(r, p) == RawLabel(r, p) = ItemNoData
WasValid(r, p) == RawLabel(r, p) # ItemNoData

\* C9 as stated: after gap filling a pixel that was nodata holds a value if and only
\* if some valid input pixel lies within 2 rows and 2 columns of it (radius 2 under
\* 8-connectivity).
C9_AsStated ==
    \A r \in Runs :
        (pc[r] \notin BeforeGapFill) =>
            \A p \in Pixels :
                WasNoData(r, p) =>
                    (IsFinite(item_array[r][p]) <=>
                        \E q \in Pixels : /\ WasValid(r, q)
                                          /\ Abs(p[1] - q[1]) <= 2
                                          /\ Abs(p[2] - q[2]) <= 2)

\* C9 as amended: after gap filling a pixel that was nodata holds a value if and only
\* if some valid input pixel lies within 2 steps of it under 4-connectivity (row
\* offset plus column offset at most 2); other nodata pixels stay NaN.
C9_FilledWithinCityBlock ==
    \A r \in Runs :
        (pc[r] \notin BeforeGapFill) =>
            \A p \in Pixels :
                WasNoData(r, p) =>
                    (IsFinite(item_array[r][p]) <=>
                        \E q \in Pixels : /\ WasValid(r, q)
                                          /\ Abs(p[1] - q[1]) + Abs(p[2] - q[2]) <= 2)

C9_Witness ==
    \E r \in Runs :
        /\ pc[r] \notin BeforeGapFill
        /\ \E p \in Pixels : WasNoData(r, p) /\ IsFinite(item_array[r][p])
        /\ \E p \in Pixels :
               /\ WasNoData(r, p)
               /\ ~IsFinite(item_array[r][p])
               /\ \E q \in Pixels : /\ WasValid(r, q)
                                    /\ Abs(p[1] - q[1]) <= 2
                                    /\ Abs(p[2] - q[2]) <= 2

\* C10: gap filling leaves every pixel that was valid in the input unchanged.
C10_ValidPixelsUnchanged ==
    \A r \in Runs :
        (pc[r] \notin BeforeGapFill) =>
            \A p \in Pixels :
                WasValid(r, p) => item_array[r][p] = Num(RawLabel(r, p))

C10_Witness ==
    \E r \in Runs :
        /\ pc[r] \notin BeforeGapFill
        /\ \E p \in Pixels : WasNoData(r, p) /\ IsFinite(item_array[r][p])
        /\ \E p \in Pixels : \E q \in Pixels :
               /\ WasValid(r, p) /\ WasValid(r, q)
               /\ RawLabel(r, p) # RawLabel(r, q)
               /\ item_array[r][p] = Num(RawLabel(r, p))

\* The levels that are keys of the mapping contour_extract returned
Keys(cd) == {cd[i].z : i \in 1 .. Len(cd)}

\* Level k separates no two neighbouring pixels that both hold data
NoTransition(a, k) ==
    \A p \in Pixels : \A q \in Pixels :
        (Adjacent4(p, q) /\ ~a[p].nan /\ ~a[q].nan) => (High(a[p], k) <=> High(a[q], k))

\* C11: a requested level is a key of contour_extract's result if and only if some
\* polyline of that level keeps at least min_vertices vertices; a level without a label
\* transition is absent, no key holds an empty list, and none of this is an error.
C11_KeyIffPolylineSurvives ==
    \A r \in Runs :
        /\ pc[r] = "contours" => ~Failed(r)
        /\ (pc[r] = "interpolate") =>
            /\ \A k \in Levels :
                   /\ (k \in Keys(contour_dict[r])) <=>
                          \E line \in find_contours(item_array[r], k) :
                              Cardinality({v \in line : ~v.nan}) >= min_vertices
                   /\ NoTransition(item_array[r], k) => k \notin Keys(contour_dict[r])
            /\ \A i \in 1 .. Len(contour_dict[r]) : contour_dict[r][i].contours # {}
            /\ Keys(contour_dict[r]) \subseteq Levels

C11_Witness ==
    \E r \in Runs :
        /\ pc[r] = "interpolate"
        /\ \E k \in Levels : k \in Keys(contour_dict[r])
        /\ \E k \in Levels : /\ NoTransition(item_array[r], k)
                             /\ k \notin Keys(contour_dict[r])
        /\ \E k \in Levels : /\ find_contours(item_array[r], k) # {}
                             /\ k \notin Keys(contour_dict[r])

\* C12: every polyline of contour_extract's result has no vertex with a NaN coordinate
\* and at least min_vertices vertices, counted after the NaN vertices were dropped; the
\* levels appear in the order in which they were requested.
C12_PolylinesCleanAndOrdered ==
    \A r \in Runs :
        (pc[r] \notin BeforeContours) =>
            /\ \A i \in 1 .. Len(contour_dict[r]) :
                   \A line \in contour_dict[r][i].contours :
                       /\ \A w \in line : ~w.nan
                       /\ Cardinality(line) >= min_vertices
            /\ \A i \in 1 .. Len(contour_dict[r]) : \A j \in 1 .. Len(contour_dict[r]) :
                   i < j => contour_dict[r][i].z < contour_dict[r][j].z

C12_Witness ==
    \E r \in Runs :
        /\ pc[r] = "interpolate"
        /\ Len(contour_dict[r]) >= 2
        /\ \E i \in 1 .. Len(contour_dict[r]) :
               \E raw \in find_contours(item_array[r], contour_dict[r][i].z) :
                   /\ NaNPoint \in raw
                   /\ {ToWorld(v) : v \in raw \ {NaNPoint}} \in contour_dict[r][i].contours
        /\ \E k \in Levels : /\ {NaNPoint} \in find_contours(item_array[r], k)
                             /\ k \notin Keys(contour_dict[r])

\* C13: the shapefile holds one record per surviving level, and the record of the level
\* at position k of z_values carries the k-th entry of each attribute list (its own
\* elevation and uncertainty), also when an earlier level has no surviving polyline.
C13_RecordCarriesLevelAttributes ==
    \A r \in Runs :
        (pc[r] \notin BeforeContours) =>
            /\ Len(shapefile[r]) = Len(contour_dict[r])
            /\ \A i \in 1 .. Len(shapefile[r]) :
                   /\ shapefile[r][i].z = contour_dict[r][i].z
                   /\ shapefile[r][i].elev_m = contour_offsets[r][contour_dict[r][i].z + 1]
                   /\ shapefile[r][i].uncert_m = uncertainty_array[r][contour_dict[r][i].z + 1]

----------------------------------------------------------------------------
\* Concurrent runs

\* The arrays a run can read at lines 316-320 when no other run is at work: each of its
\* own reprojected rasters, or the raster of its own last reprojection
AloneArrays(r) ==
    {[srtm30 |-> s, ausbath09 |-> b1, gbr30 |-> b2, nthaus30 |-> masking[r].nthaus30,
      conf |-> masking[r].conf] :
        s \in {masking[r].srtm30, masking[r].nthaus30},
        b1 \in {masking[r].ausbath09, masking[r].nthaus30},
        b2 \in {masking[r].gbr30, masking[r].nthaus30}}

\* C14: two tile runs started at the same time share no mutable state: no file is
\* written by one run and written or read by the other, and in every interleaving each
\* run reads the masking arrays, and builds the mask, it would get when running alone.
C14_ConcurrentRunsAreIndependent ==
    /\ Cardinality(scratch.writers) <= 1
    /\ \A r \in Runs :
           (pc[r] \notin (BeforeMask \ {"mask"})) => aux[r] \in AloneArrays(r)
    /\ \A r \in Runs :
           AfterMask(r) => nidem_mask[r] \in {NidemMask(a) : a \in AloneArrays(r)}

----------------------------------------------------------------------------
\* End of a run

ArtifactOrder ==
    <<"contours", "nidem", "nidem_unfiltered", "nidem_uncertainty", "nidem_mask", "netcdf">>

\* C15: a run that has ended has written all six artifacts (the contour shapefile, the
\* four GeoTIFFs and the NetCDF file) or has failed with an error; no run ends without
\* an error having written fewer than six artifacts.
C15_AllArtifactsOrError ==
    \A r \in Runs :
        /\ Ended(r) => (Failed(r) \/ exported[r] = ArtifactOrder)
        /\ (pc[r] = "done") => Len(exported[r]) = 6
        /\ (~Failed(r)) => Len(exported[r]) <= 6

\* A run that has failed part way through the exports, and so has left some of the
\* artifacts behind
C15_Witness ==
    \E r \in Runs :
        /\ Ended(r)
        /\ Failed(r)
        /\ Len(exported[r]) \in 2 .. 5

----------------------------------------------------------------------------
\* Uncertainty table

\* The observations that line 848 labels j
Labelled(tides, j) ==
    LET labelled == interval(tides)
    IN  {i \in 1 .. Len(tides) : labelled[i] = j}

\* v is the sample standard deviation (to the millimetre) of the observations I,
\* and undefined when I has fewer than two observations
IsDeviation(v, tides, I) ==
    LET n == Cardinality(I)
        vn == n * SumOver(tides, I, "xx") - SumOver(tides, I, "x") * SumOver(tides, I, "x")
        vd == n * (n - 1)
    IN  IF n < 2 THEN v = NaN
        ELSE /\ IsFinite(v)
             /\ v.lo >= 0
             /\ v.lo * v.lo * vd <= vn
             /\ vn <= v.hi * v.hi * vd
             /\ v.hi = (IF v.lo * v.lo * vd = vn THEN v.lo ELSE v.lo + 1)

\* C16: interval_uncertainty raises no error and returns exactly 9 values, the j-th
\* being the standard deviation of the tide heights of interval j; the value of an
\* interval with one observation or none is NaN, never zero.
C16_NineDeviationsNoError ==
    \A r \in Runs :
        /\ (pc[r] = "tables") => ~Failed(r)
        /\ (pc[r] \notin BeforeTables) =>
               /\ Len(uncertainty_array[r]) = 9
               /\ \A j \in 1 .. 9 :
                      IsDeviation(uncertainty_array[r][j], inputs[r].tides,
                                  Labelled(inputs[r].tides, j))

\* C17: the tide heights are cut into 10 bins of equal width with the edges
\* min + k * (max - min) / 10, k = 0 .. 10, from the lowest to the highest height, and
\* every observation, the lowest and the highest included, is in exactly one bin.
C17_EveryObservationBinned ==
    \A r \in Runs :
        (pc[r] \notin BeforeTables) =>
            LET tides == inputs[r].tides
                bins == per10_dict(tides)
                labelled == interval(tides)
            IN  /\ Len(bins) = 11
                /\ bins[1] = min_height(tides)
                /\ bins[Len(bins)] = max_height(tides)
                /\ \A i \in 1 .. Len(tides) : labelled[i] \in 1 .. 10

----------------------------------------------------------------------------
\* Boundary levels

\* C18 as stated: the contour extractor is invoked with exactly 8 boundary levels, the
\* half-integers from 0.5 to 8.5, each paired with one height and one uncertainty.
C18_AsStated ==
    \A r \in Runs :
        (pc[r] \notin BeforeContours) =>
            /\ Len(z_values[r]) = 8
            /\ z_values[r][1] = 1
            /\ z_values[r][Len(z_values[r])] = 17
            /\ Len(contour_offsets[r]) = Len(z_values[r])
            /\ Len(uncertainty_array[r]) = Len(z_values[r])

\* C18: the contour extractor is invoked with exactly 9 boundary levels, the
\* half-integers 0.5, 1.5, ..., 8.5 (here counted in halves: 1, 3, ..., 17), and the
\* height table and the uncertainty table hold one entry for each of them.
C18_NineLevelsPaired ==
    \A r \in Runs :
        (pc[r] \notin BeforeContours) =>
            /\ Len(z_values[r]) = 9
            /\ \A i \in 1 .. Len(z_values[r]) : z_values[r][i] = 2 * i - 1
            /\ Len(contour_offsets[r]) = Len(z_values[r])
            /\ Len(uncertainty_array[r]) = Len(z_values[r])

C18_Witness ==
    \E r \in Runs :
        /\ pc[r] = "interpolate"
        /\ ~Failed(r)
        /\ Len(z_values[r]) = 9
        /\ z_values[r][9] = 17
        /\ Len(contour_dict[r]) >= 1

----------------------------------------------------------------------------
\* Sample locations

\* The centre of pixel p = (row, column) in world coordinates
PixelCentre(p) ==
    [x |-> upleft_x + ((2 * p[2] + 1) * x_size) \div 2,
     y |-> upleft_y + ((2 * p[1] + 1) * y_size) \div 2]

\* The run has interpolated its contours (the try block of lines 241-263 has ended
\* without an exception) and has gone no further
Interpolated(r) ==
    /\ pc[r] = "open_mask_inputs"
    /\ ~Failed(r)
    /\ Len(contour_dict[r]) > 0

\* C19: the interpolation is evaluated at the pixel centres, in the coordinate frame of
\* the contour vertices: the value of pixel (r, c) is the interpolant at
\* (upleft_x + (c + 0.5) * x_size, upleft_y + (r + 0.5) * y_size), and the vertex that
\* find_contours places at index (r, c) lies at that pixel centre.
C19_SampledAtPixelCentres ==
    \A r \in Runs :
        Interpolated(r) =>
            \A p \in Pixels :
                /\ LET v == ToWorld([nan |-> FALSE, r |-> p[1] * Sub, c |-> p[2] * Sub])
                   IN  v.x = PixelCentre(p).x /\ v.y = PixelCentre(p).y
                /\ interp_elev_array[r][p] = LinearAt(points[r], PixelCentre(p), ElevOf)
                /\ interp_uncert_array[r][p] = LinearAt(points[r], PixelCentre(p), UncertOf)

----------------------------------------------------------------------------
\* Uncertainty of the scattered points

\* C20: in the scattered point set, every vertex of a contour extracted at level k
\* carries the k-th entry of the uncertainty table, rounded to 2 decimals, for every
\* height table, also when two levels have the same height.
C20_VertexCarriesLevelUncertainty ==
    \A r \in Runs :
        InterpolateActed(r) =>
            \A i \in 1 .. Len(contour_dict[r]) :
                \A w \in UNION contour_dict[r][i].contours :
                    \A pt \in points[r] :
                        (pt.x = w.x /\ pt.y = w.y) =>
                            pt.uncert = Round2(uncertainty_array[r][contour_dict[r][i].z + 1])

----------------------------------------------------------------------------
\* Lookup of the uncertainty

\* The run has built its scattered point set (line 253 has raised nothing)
Tagged(r) ==
    /\ InterpolateActed(r)
    /\ Len(contour_dict[r]) > 0
    /\ err[r] # "KeyError"

\* C21 as stated: the uncertainty is looked up by a join on the heights rounded to 2
\* decimals on both sides, so points whose heights agree to 2 decimals carry the same
\* uncertainty.
C21_AsStated ==
    \A r \in Runs :
        Tagged(r) =>
            \A p1 \in points[r] : \A p2 \in points[r] :
                Round2(p1.elev) = Round2(p2.elev) => p1.uncert = p2.uncert

\* C21: the uncertainty of a point is looked up by an exact match of its height, as it
\* is, with the heights of the table, as they are (of several levels with that height
\* the last one gives the entry); only the uncertainty found is rounded to 2 decimals.
C21_ExactMatchOnHeight ==
    \A r \in Runs :
        Tagged(r) =>
            \A pt \in points[r] :
                LET same == {j \in 1 .. Len(contour_offsets[r]) :
                                Num(contour_offsets[r][j]) = pt.elev}
                IN  /\ same # {}
                    /\ pt.uncert = Round2(uncertainty_array[r][SetMax(same)])

C21_Witness ==
    \E r \in Runs :
        /\ Tagged(r)
        /\ \E p1 \in points[r] : \E p2 \in points[r] :
               /\ p1.elev # p2.elev
               /\ Round2(p1.elev) = Round2(p2.elev)
               /\ p1.uncert # p2.uncert

\* Some point of the run's contours has a height without entry in uncertainty_dict
NoEntry(r) ==
    \E pt \in all_contours(contour_dict[r], contour_offsets[r]) :
        ~HasEntry(contour_offsets[r], pt.elev)

\* C22: when the height of some point has no entry in the uncertainty lookup, the run
\* fails with that error: the handler of the degenerate geometry does not catch it,
\* no uncertainty is put in its place, no raster is filled with the sentinel and no
\* raster is written.
C22_MissingEntryIsFatal ==
    \A r \in Runs :
        (InterpolateActed(r) /\ NoEntry(r)) =>
            /\ pc[r] = "interpolate"
            /\ err[r] = "KeyError"
            /\ points[r] = {}
            /\ interp_elev_array[r] = Unset
            /\ interp_uncert_array[r] = Unset
            /\ exported[r] = <<"contours">>

C22_Witness ==
    \E r \in Runs :
        /\ InterpolateActed(r)
        /\ NoEntry(r)
        /\ Failed(r)
        /\ \E i \in 1 .. Len(contour_dict[r]) : contour_offsets[r][i] = NaNHeight

----------------------------------------------------------------------------
\* Thresholds of the mask layers

\* Every one of the three depth arrays is below -25 at p
AllDeep(a, p) == a.ausbath09[p] < -25 /\ a.gbr30[p] < -25 /\ a.nthaus30[p] < -25

\* C23: the three layers use strict thresholds and the bathymetry layer is a
\* conjunction; seen through the composite mask: a pixel is 3 iff its confidence is
\* above 0.25 (25 hundredths), else 2 iff all three depth arrays are below -25 there,
\* else 1 iff its elevation is above 25; a pixel at a threshold, or deep in only some
\* of the depth arrays, is not flagged by that criterion.
C23_StrictThresholdsAndConjunction ==
    \A r \in Runs :
        AfterMask(r) =>
            \A p \in Pixels :
                LET a == aux[r]
                    m == nidem_mask[r][p]
                IN  /\ (m = 3) <=> (a.conf[p] > 25)
                    /\ (m = 2) <=> (a.conf[p] <= 25 /\ AllDeep(a, p))
                    /\ (m = 1) <=> (a.conf[p] <= 25 /\ ~AllDeep(a, p) /\ a.srtm30[p] > 25)
                    /\ (a.conf[p] = 25 /\ a.srtm30[p] = 25 /\ ~AllDeep(a, p)) => m = -9999

C23_Witness ==
    \E r \in Runs :
        /\ AfterMask(r)
        /\ \E p \in Pixels :
               /\ aux[r].conf[p] = 25
               /\ aux[r].srtm30[p] = 25
               /\ aux[r].ausbath09[p] = -25
               /\ aux[r].gbr30[p] < -25
               /\ aux[r].nthaus30[p] < -25
               /\ nidem_mask[r][p] = -9999

----------------------------------------------------------------------------
\* Observation times

\* C24: the list of times handed to predict_tide holds at most one observation for each
\* solar day, counted over all products together, and is in ascending order.
C24_OneObservationPerSolarDay ==
    \A r \in Runs :
        (pc[r] \notin BeforeTables) =>
            \A i \in 1 .. Len(all_times_obs[r]) : \A j \in 1 .. Len(all_times_obs[r]) :
                i < j => /\ all_times_obs[r][i] <= all_times_obs[r][j]
                         /\ solar_day(all_times_obs[r][i]) # solar_day(all_times_obs[r][j])

----------------------------------------------------------------------------
\* Source of a filled pixel

\* C25: every pixel the gap filler has filled holds the value of a valid input pixel
\* at minimum Euclidean distance: no valid input pixel is strictly closer than the one
\* whose value was copied.
C25_FilledFromNearestValid ==
    \A r \in Runs :
        (pc[r] \notin BeforeGapFill) =>
            \A p \in Pixels :
                (WasNoData(r, p) /\ IsFinite(item_array[r][p])) =>
                    \E q \in Pixels :
                        /\ WasValid(r, q)
                        /\ item_array[r][p] = Num(RawLabel(r, q))
                        /\ \A q2 \in Pixels :
                               WasValid(r, q2) => Dist2(p, q) <= Dist2(p, q2)

C25_Witness ==
    \E r \in Runs :
        /\ pc[r] \notin BeforeGapFill
        /\ \E p \in Pixels : \E q \in Pixels : \E q2 \in Pixels :
               /\ WasNoData(r, p) /\ WasValid(r, q) /\ WasValid(r, q2)
               /\ Dist2(p, q) < Dist2(p, q2)
               /\ RawLabel(r, q) # RawLabel(r, q2)
               /\ item_array[r][p] = Num(RawLabel(r, q))

----------------------------------------------------------------------------
\* Arrays of the reprojected rasters

\* C26: within one run each of the four arrays read at lines 317-320 holds the data
\* reprojected from its own input raster, although all four reprojections wrote
\* 'scratch/temp.tif' and were completed before the first array was read.
C26_ArraysHoldOwnRaster ==
    \A r \in Runs :
        (pc[r] \notin (BeforeMask \ {"mask"})) =>
            /\ scratch.source = "nthaus30"
            /\ \A source \in {"srtm30", "ausbath09", "gbr30", "nthaus30"} :
                   aux[r][source] = masking[r][source]

----------------------------------------------------------------------------
\* Order of the artifacts

\* The artifacts of ArtifactOrder a run has on disk: those it wrote completely, and the
\* tile's NetCDF when the file at its path is the run's, finished or not
OnDisk(r) ==
    {exported[r][i] : i \in 1 .. Len(exported[r])}
        \cup (IF Len(inputs[r].argv) >= 2 /\ netcdf_file[polygon_id(r)] = r
              THEN {"netcdf"} ELSE {})

\* C27: a run writes its artifacts in the order contour shapefile, filtered raster,
\* unfiltered raster, uncertainty raster, mask raster, NetCDF, so what it has written is
\* always an initial part of that order; and for a run that started with no outputs
\* present the tile's NetCDF is on disk, whether the run went on to succeed or failed,
\* only if the run wrote the other five artifacts, and it is on disk when the run is done.
C27_NetCDFLastAfterTheOtherFive ==
    \A r \in Runs :
        /\ exported[r] = SubSeq(ArtifactOrder, 1, Len(exported[r]))
        /\ ("netcdf" \in OnDisk(r)) =>
               /\ pc[r] \in {"export_netcdf", "done"}
               /\ Len(exported[r]) >= 5
        /\ (pc[r] = "done") => "netcdf" \in OnDisk(r)

\* A run that failed while it wrote the NetCDF: the unfinished file is on disk, and so
\* are the other five artifacts
C27_Witness ==
    \E r \in Runs :
        /\ Failed(r)
        /\ pc[r] = "export_netcdf"
        /\ "netcdf" \in OnDisk(r)
        /\ Len(exported[r]) = 5

====
